---- MODULE Spec2Model ----
(***************************************************************************)
(* A model of chcheck.py: the command line driver, the two syntax tree     *)
(* visitors and the comparison of the collected symbol lists.              *)
(*                                                                         *)
(* Text is a sequence of fragments.  The command line arguments are built  *)
(* from one-character fragments, so that the slice sys.argv[-1][-2:] is    *)
(* computed on characters; literals of the program that are never sliced   *)
(* are single fragments.  '+' and str.format are concatenation (\o).       *)
(***************************************************************************)
EXTENDS Integers, Sequences, FiniteSets, TLC

VARIABLES sys_argv, files, dirs, pc, stdout, exit_code, args, cpp_args,
          pycparser_path, parse_calls, exists_calls, parse_errors,
          definitions_ast, declarations_ast, c_visitor, h_visitor,
          without_definition, without_declaration, error_code

vars == <<sys_argv, files, dirs, pc, stdout, exit_code, args, cpp_args,
          pycparser_path, parse_calls, exists_calls, parse_errors,
          definitions_ast, declarations_ast, c_visitor, h_visitor,
          without_definition, without_declaration, error_code>>

\* ------------------------------------------------------------------ bounds
MaxDefs == 2
MaxDecls == 2
MaxPtrDepth == 2

\* ------------------------------------------------------------- python bits
None == [kind |-> "None"]

Range(s) == {s[i] : i \in 1..Len(s)}

\* s[-2:]
LastTwo(s) == SubSeq(s, IF Len(s) > 2 THEN Len(s) - 1 ELSE 1, Len(s))

\* s[-1]
Last(s) == s[Len(s)]

\* s[:-1]
AllButLast(s) == SubSeq(s, 1, Len(s) - 1)

\* s[1:]
Tail1(s) == SubSeq(s, 2, Len(s))

DotC == <<".", "c">>
DotH == <<".", "h">>

\* os.path.abspath(__file__)
ScriptFile == <<"/", "opt", "/", "chcheck.py">>

\* os.path.join(a, b) for a relative b
path_join(a, b) == a \o <<"/">> \o b

RECURSIVE LastSep(_, _)
LastSep(p, i) == IF i = 0 THEN 0 ELSE IF p[i] = "/" THEN i ELSE LastSep(p, i - 1)

\* os.path.dirname(p)
path_dirname(p) ==
    LET i == LastSep(p, Len(p))
    IN  IF i = 0 THEN <<>> ELSE IF i = 1 THEN <<"/">> ELSE SubSeq(p, 1, i - 1)

\* os.path.isdir(p) on the file system fs
path_isdir(fs, p) == p \in fs

\* ---------------------------------------------------------- syntax trees
Names == {<<"f">>, <<"g">>}

OtherFile == <<"inc", ".", "h">>

IdentifierType == [kind |-> "IdentifierType"]

TypeDecl(declname) == [kind |-> "TypeDecl", declname |-> declname, type |-> IdentifierType]

PtrDecl(type) == [kind |-> "PtrDecl", type |-> type]

RECURSIVE Ptrs(_, _)
Ptrs(depth, inner) == IF depth = 0 THEN inner ELSE PtrDecl(Ptrs(depth - 1, inner))

FuncDecl(file, fargs, type) ==
    [kind |-> "FuncDecl", coord_file |-> file, args |-> fargs, type |-> type]

Decl(name, storage, type) ==
    [kind |-> "Decl", name |-> name, storage |-> storage, type |-> type]

ParamList(params) == [kind |-> "ParamList", params |-> params]

Compound == [kind |-> "Compound", block_items |-> <<>>]

FuncDef(file, decl) ==
    [kind |-> "FuncDef", coord_file |-> file, decl |-> decl, body |-> Compound]

FileAST(ext) == [kind |-> "FileAST", ext |-> ext]

\* int name(void);  with depth pointer declarators on the return type
Prototype(file, name, depth) ==
    Decl(name, <<>>, FuncDecl(file, None, Ptrs(depth, TypeDecl(name))))

\* int (*name)(void);  as a parameter
FuncPointer(file, name) ==
    Decl(name, <<>>, PtrDecl(FuncDecl(file, None, TypeDecl(name))))

\* int name(int (*cb)(void));
PrototypeWithCallback(file, name) ==
    Decl(name, <<>>, FuncDecl(file, ParamList(<<FuncPointer(file, <<"cb">>)>>),
                              TypeDecl(name)))

\* int (*name(void))(void);  a function returning a pointer to a function
PrototypeReturningFuncPointer(file, name) ==
    Decl(name, <<>>, FuncDecl(file, None,
                              PtrDecl(FuncDecl(file, None, TypeDecl(name)))))

\* storage int name(void) { }
Definition(file, name, storage) ==
    FuncDef(file, Decl(name, storage, FuncDecl(file, None, TypeDecl(name))))

\* the children of a node, in the order c_ast iterates them
Children(node) ==
    CASE node.kind = "FileAST"   -> node.ext
      [] node.kind = "FuncDef"   -> <<node.decl, node.body>>
      [] node.kind = "Decl"      -> <<node.type>>
      [] node.kind = "FuncDecl"  -> (IF node.args = None THEN <<>> ELSE <<node.args>>)
                                    \o <<node.type>>
      [] node.kind = "ParamList" -> node.params
      [] node.kind = "PtrDecl"   -> <<node.type>>
      [] node.kind = "TypeDecl"  -> <<node.type>>
      [] node.kind = "Compound"  -> node.block_items
      [] OTHER                   -> <<>>

SeqsUpTo(S, n) == UNION {[1..k -> S] : k \in 0..n}

\* what parse_file can return for <module>.c
CItems(file) ==
    {Definition(file, <<"f">>, st) : st \in {<<>>, <<"static">>}}
    \cup {Definition(file, <<"g">>, <<>>), Definition(OtherFile, <<"f">>, <<>>),
          Prototype(file, <<"g">>, 0)}

CTrees(file) == {FileAST(ext) : ext \in SeqsUpTo(CItems(file), MaxDefs)}

\* what parse_file can return for <module>.h
HItems(file) ==
    {Prototype(file, <<"f">>, 0), Prototype(OtherFile, <<"f">>, 0),
     PrototypeWithCallback(file, <<"f">>),
     PrototypeReturningFuncPointer(file, <<"f">>)}
    \cup {Prototype(file, <<"g">>, d) : d \in 1..MaxPtrDepth}

HTrees(file) == {FileAST(ext) : ext \in SeqsUpTo(HItems(file), MaxDecls)}

ParseMessages == {<<":1:1: before: }">>}

\* ------------------------------------------------------------- visitors
\* visit_FuncDef, had it kept the static definitions instead
visit_FuncDef_only_static(node, filename) ==
    IF node.coord_file = filename
    THEN IF "static" \in Range(node.decl.storage)
         THEN <<node.decl.name>>
         ELSE <<>>
    ELSE <<>>

\* visit_FuncDef, had it not looked at the storage class
visit_FuncDef_any_storage(node, filename) ==
    IF node.coord_file = filename THEN <<node.decl.name>> ELSE <<>>

\* FuncDefVisitor.visit_FuncDef: the names it appends to symbols
visit_FuncDef(node, filename) ==
    IF node.coord_file = filename
    THEN IF ~("static" \in Range(node.decl.storage))
         THEN <<node.decl.name>>
         ELSE <<>>
    ELSE <<>>

RECURSIVE FuncDefVisitor_visit(_, _)
RECURSIVE FuncDefVisitor_visit_all(_, _, _)
\* NodeVisitor.visit for a FuncDefVisitor: the symbols appended below node
FuncDefVisitor_visit(node, filename) ==
    IF node.kind = "FuncDef"
    THEN visit_FuncDef(node, filename)
    ELSE FuncDefVisitor_visit_all(Children(node), 1, filename)

FuncDefVisitor_visit_all(nodes, i, filename) ==
    IF i > Len(nodes) THEN <<>>
    ELSE FuncDefVisitor_visit(nodes[i], filename)
         \o FuncDefVisitor_visit_all(nodes, i + 1, filename)

\* FuncDeclVisitor.declname: raised is an AttributeError
RECURSIVE declname(_)
declname(node) ==
    IF node.type.kind = "PtrDecl"
    THEN declname(node.type)
    ELSE IF node.type.kind = "TypeDecl"
         THEN [raised |-> FALSE, value |-> node.type.declname]
         ELSE [raised |-> TRUE, value |-> <<>>]

\* visit_FuncDecl, had it not looked at the coordinate
visit_FuncDecl_any_file(node, filename, v) ==
    LET r == declname(node)
    IN  IF r.raised
        THEN [v EXCEPT !.raised = TRUE]
        ELSE [v EXCEPT !.symbols = Append(@, r.value)]

\* FuncDeclVisitor.visit_FuncDecl on the visitor state v
visit_FuncDecl(node, filename, v) ==
    IF node.coord_file = filename
    THEN LET r == declname(node)
         IN  IF r.raised
             THEN [v EXCEPT !.raised = TRUE]
             ELSE [v EXCEPT !.symbols = Append(@, r.value)]
    ELSE v

RECURSIVE FuncDeclVisitor_visit(_, _, _)
RECURSIVE FuncDeclVisitor_visit_all(_, _, _, _)
\* NodeVisitor.visit for a FuncDeclVisitor; an exception ends the traversal
FuncDeclVisitor_visit(node, filename, v) ==
    IF v.raised THEN v
    ELSE IF node.kind = "FuncDecl"
         THEN visit_FuncDecl(node, filename, v)
         ELSE FuncDeclVisitor_visit_all(Children(node), 1, filename, v)

FuncDeclVisitor_visit_all(nodes, i, filename, v) ==
    IF i > Len(nodes) \/ v.raised THEN v
    ELSE FuncDeclVisitor_visit_all(nodes, i + 1, filename,
                                   FuncDeclVisitor_visit(nodes[i], filename, v))

\* ------------------------------------------------------------ comparison
RECURSIVE symbols_not_in_deduplicated(_, _)
\* symbols_not_in, had it been written with sets: a name is listed once
symbols_not_in_deduplicated(symbols, others) ==
    IF symbols = <<>> THEN <<>>
    ELSE (IF Head(symbols) \in Range(others) \/ Head(symbols) \in Range(Tail(symbols))
          THEN <<>> ELSE <<<<"  ">> \o Head(symbols)>>)
         \o symbols_not_in_deduplicated(Tail(symbols), others)

RECURSIVE symbols_not_in(_, _)
\* ["  "+symbol for symbol in symbols if symbol not in others]
symbols_not_in(symbols, others) ==
    IF symbols = <<>> THEN <<>>
    ELSE (IF Head(symbols) \in Range(others) THEN <<>> ELSE <<<<"  ">> \o Head(symbols)>>)
         \o symbols_not_in(Tail(symbols), others)

definitions_header(module) ==
    <<"Externally visible definitions in '">> \o module
    \o <<".c' that are not in '">> \o module \o <<".h':">>

declarations_header(module) ==
    <<"Declarations in '">> \o module
    \o <<".h' that have no externally visible definition in '">> \o module \o <<".c':">>

\* what the comparison prints for the two difference lists
report(module, wo_definition, wo_declaration) ==
    (IF Len(wo_definition) > 0
     THEN <<definitions_header(module)>> \o wo_definition \o <<<<>>>>
     ELSE <<>>)
    \o (IF Len(wo_declaration) > 0
        THEN <<declarations_header(module)>> \o wo_declaration
        ELSE <<>>)

\* return_value, had it looked at the declarations only
return_value_ignoring_definitions(wo_definition, wo_declaration) ==
    IF Len(wo_declaration) = 0 THEN 0 ELSE -1

\* return_value, had it looked at the definitions only
return_value_ignoring_declarations(wo_definition, wo_declaration) ==
    IF Len(wo_definition) = 0 THEN 0 ELSE -1

\* the value compare_header_and_body returns
return_value(wo_definition, wo_declaration) ==
    IF Len(wo_declaration) = 0 /\ Len(wo_definition) = 0 THEN 0 ELSE -1

\* parse_error_message, had it left the file out
parse_error_message_without_file(filename, e) ==
    <<"ERROR processing ">> \o <<": ">> \o e \o <<" - C99 parse error">>

parse_error_message(filename, e) ==
    <<"ERROR processing ">> \o filename \o <<": ">> \o e \o <<" - C99 parse error">>

missing_file_message(module) ==
    <<"ERROR: both '">> \o module \o <<".c' and '">> \o module \o <<".h' must exist">>

usage == <<"Usage: chcheck.py { <cpp_directive> } <module> ...">>

\* cpp_args before the fake libc is looked for
initial_cpp_args(a) ==
    << <<"-D__gnuc_va_list(x)=">>, <<"-D__attribute__(x)=">>, <<"-D__extension__=">>,
       <<"-D__restrict=">>, <<"-D__inline=">> >>
    \o (IF Len(a) > 1 THEN AllButLast(a) ELSE <<>>)

\* the directory the fake libc is looked for in, or None
find_pycparser_path(fs) ==
    IF path_isdir(fs, <<"pycparser">>)
    THEN [kind |-> "path", path |-> <<"./pycparser">>]
    ELSE IF path_isdir(fs, path_dirname(path_join(ScriptFile, <<"pycparser">>)))
         THEN [kind |-> "path", path |-> path_dirname(path_join(ScriptFile, <<"pycparser">>))]
         ELSE None

pycparser_lib(path) ==
    IF path # None
    THEN [kind |-> "path",
          path |-> path_join(path_join(path.path, <<"utils">>), <<"fake_libc_include">>)]
    ELSE None

\* sys.argv[-1][-2:]
possible_extension(argv) == LastTwo(Last(argv))

\* is_extension, had it forgotten the header
is_extension_c_only(ext) == ext = DotC

is_extension(ext) == ext = DotC \/ ext = DotH

\* both_exist, had one file been enough
both_exist_either(fs, module) == (module \o DotC) \in fs \/ (module \o DotH) \in fs

\* os.path.exists(module+'.c') and os.path.exists(module+'.h'), and the calls made
both_exist(fs, module) == (module \o DotC) \in fs /\ (module \o DotH) \in fs

exists_called(fs, module) ==
    IF (module \o DotC) \in fs THEN <<module \o DotC, module \o DotH>> ELSE <<module \o DotC>>

\* ------------------------------------------------------------- the program
Script == <<"chcheck.py">>
IncludeArg == <<"-", "I", "i", "n", "c">>
CwdPycparser == <<"pycparser">>
ScriptDirPycparser == path_join(path_dirname(ScriptFile), <<"pycparser">>)

LastArgs == {<<"m", ".", "c">>, <<"m", ".", "h">>, <<".", "c">>, <<"c">>}

Argvs ==
    {<<Script>>}
    \cup {<<Script, a>> : a \in LastArgs}
    \cup {<<Script, IncludeArg, a>> : a \in {<<"m">>, <<"m", ".", "h">>}}

\* The command line, the two files of the module that exist, and the
\* 'pycparser' directories that exist: dirs holds the directories the program
\* can ask for; the script itself is a file and is never among them.
Init ==
    /\ sys_argv \in Argvs
    /\ \E module \in {IF Len(sys_argv) > 1 THEN Last(sys_argv) ELSE <<"m">>} :
          files \in SUBSET {module \o DotC, module \o DotH}
    /\ dirs \in SUBSET {CwdPycparser, ScriptDirPycparser}
    /\ pc = "main"
    /\ stdout = <<>>
    /\ exit_code = <<>>
    /\ args = <<>>
    /\ cpp_args = <<>>
    /\ pycparser_path = None
    /\ parse_calls = <<>>
    /\ exists_calls = <<>>
    /\ parse_errors = <<>>
    /\ definitions_ast = None
    /\ declarations_ast = None
    /\ c_visitor = None
    /\ h_visitor = None
    /\ without_definition = <<>>
    /\ without_declaration = <<>>
    /\ error_code = <<>>

\* exit(code): the code the interpreter ends with
Exit(code) == exit_code' = <<code>> /\ pc' = "exited"

\* if not len(sys.argv) > 1: usage(); exit(-1)
MainNoArguments ==
    /\ pc = "main"
    /\ ~(Len(sys_argv) > 1)
    /\ stdout' = Append(stdout, usage)
    /\ Exit(-1)
    /\ UNCHANGED <<sys_argv, files, dirs, args, cpp_args, pycparser_path, parse_calls,
                   exists_calls, parse_errors, definitions_ast, declarations_ast,
                   c_visitor, h_visitor, without_definition, without_declaration,
                   error_code>>

\* the last argument is a .c or .h filename: usage(); exit(-1)
MainExtension ==
    /\ pc = "main"
    /\ Len(sys_argv) > 1
    /\ is_extension(possible_extension(sys_argv))
    /\ stdout' = Append(stdout, usage)
    /\ Exit(-1)
    /\ UNCHANGED <<sys_argv, files, dirs, args, cpp_args, pycparser_path, parse_calls,
                   exists_calls, parse_errors, definitions_ast, declarations_ast,
                   c_visitor, h_visitor, without_definition, without_declaration,
                   error_code>>

\* the check that both files exist, when one does not
MainMissingFile ==
    /\ pc = "main"
    /\ Len(sys_argv) > 1
    /\ ~is_extension(possible_extension(sys_argv))
    /\ LET module == Last(sys_argv)
       IN  /\ ~both_exist(files, module)
           /\ exists_calls' = exists_calls \o exists_called(files, module)
           /\ stdout' = Append(stdout, missing_file_message(module))
    /\ Exit(-1)
    /\ UNCHANGED <<sys_argv, files, dirs, args, cpp_args, pycparser_path, parse_calls,
                   parse_errors, definitions_ast, declarations_ast,
                   c_visitor, h_visitor, without_definition, without_declaration,
                   error_code>>

\* the checks pass: compare_header_and_body(sys.argv[1:]) up to the first parse
MainCompare ==
    /\ pc = "main"
    /\ Len(sys_argv) > 1
    /\ ~is_extension(possible_extension(sys_argv))
    /\ LET module == Last(sys_argv)
       IN  /\ both_exist(files, module)
           /\ exists_calls' = exists_calls \o exists_called(files, module)
    /\ args' = Tail1(sys_argv)
    /\ pycparser_path' = find_pycparser_path(dirs)
    /\ LET lib == pycparser_lib(find_pycparser_path(dirs))
       IN  cpp_args' = initial_cpp_args(Tail1(sys_argv))
                       \o (IF ~(lib = None) THEN << <<"-I">> \o lib.path >> ELSE <<>>)
    /\ pc' = "parse_c"
    /\ UNCHANGED <<sys_argv, files, dirs, stdout, exit_code, parse_calls,
                   parse_errors, definitions_ast, declarations_ast,
                   c_visitor, h_visitor, without_definition, without_declaration,
                   error_code>>

\* definitions_ast = parse_file(module+'.c', ...)
ParseDefinitions ==
    /\ pc = "parse_c"
    /\ LET filename == Last(args) \o DotC
       IN  /\ parse_calls' = Append(parse_calls, [filename |-> filename, cpp_args |-> cpp_args])
           /\ \/ /\ definitions_ast' \in CTrees(filename)
                 /\ pc' = "parse_h"
                 /\ UNCHANGED <<stdout, exit_code, parse_errors>>
              \/ \E e \in ParseMessages :
                 /\ stdout' = Append(stdout, parse_error_message(filename, e))
                 /\ parse_errors' = Append(parse_errors, filename)
                 /\ Exit(-1)
                 /\ UNCHANGED definitions_ast
    /\ UNCHANGED <<sys_argv, files, dirs, args, cpp_args, pycparser_path, exists_calls,
                   declarations_ast, c_visitor, h_visitor, without_definition,
                   without_declaration, error_code>>

\* declarations_ast = parse_file(module+'.h', ...)
ParseDeclarations ==
    /\ pc = "parse_h"
    /\ LET filename == Last(args) \o DotH
       IN  /\ parse_calls' = Append(parse_calls, [filename |-> filename, cpp_args |-> cpp_args])
           /\ \/ /\ declarations_ast' \in HTrees(filename)
                 /\ pc' = "visit"
                 /\ UNCHANGED <<stdout, exit_code, parse_errors>>
              \/ \E e \in ParseMessages :
                 /\ stdout' = Append(stdout, parse_error_message(filename, e))
                 /\ parse_errors' = Append(parse_errors, filename)
                 /\ Exit(-1)
                 /\ UNCHANGED declarations_ast
    /\ UNCHANGED <<sys_argv, files, dirs, args, cpp_args, pycparser_path, exists_calls,
                   definitions_ast, c_visitor, h_visitor, without_definition,
                   without_declaration, error_code>>

\* the visitor objects after the two traversals
collected_definitions(ast, module) ==
    [kind |-> "FuncDefVisitor", filename |-> module \o DotC,
     symbols |-> FuncDefVisitor_visit(ast, module \o DotC)]

collected_declarations(ast, module) ==
    FuncDeclVisitor_visit(ast, module \o DotH,
        [kind |-> "FuncDeclVisitor", filename |-> module \o DotH,
         symbols |-> <<>>, raised |-> FALSE])

\* the two traversals, when h_visitor.visit raises an AttributeError: it is
\* not caught, and the interpreter ends with status 1
CollectRaises ==
    /\ pc = "visit"
    /\ c_visitor' = collected_definitions(definitions_ast, Last(args))
    /\ h_visitor' = collected_declarations(declarations_ast, Last(args))
    /\ h_visitor'.raised
    /\ Exit(1)
    /\ UNCHANGED <<sys_argv, files, dirs, stdout, args, cpp_args,
                   pycparser_path, parse_calls, exists_calls, parse_errors,
                   definitions_ast, declarations_ast, without_definition,
                   without_declaration, error_code>>

\* the two traversals, the two difference lists, their reports and the
\* return value
CompareReturns ==
    /\ pc = "visit"
    /\ c_visitor' = collected_definitions(definitions_ast, Last(args))
    /\ h_visitor' = collected_declarations(declarations_ast, Last(args))
    /\ ~h_visitor'.raised
    /\ LET wo_definition == symbols_not_in(c_visitor'.symbols, h_visitor'.symbols)
           wo_declaration == symbols_not_in(h_visitor'.symbols, c_visitor'.symbols)
       IN  /\ without_definition' = wo_definition
           /\ without_declaration' = wo_declaration
           /\ stdout' = stdout \o report(Last(args), wo_definition, wo_declaration)
           /\ error_code' = <<return_value(wo_definition, wo_declaration)>>
    /\ pc' = "returned"
    /\ UNCHANGED <<sys_argv, files, dirs, exit_code, args, cpp_args,
                   pycparser_path, parse_calls, exists_calls, parse_errors,
                   definitions_ast, declarations_ast>>

\* exit(error_code)
MainExit ==
    /\ pc = "returned"
    /\ Exit(error_code[1])
    /\ UNCHANGED <<sys_argv, files, dirs, stdout, args, cpp_args,
                   pycparser_path, parse_calls, exists_calls, parse_errors,
                   definitions_ast, declarations_ast, c_visitor, h_visitor,
                   without_definition, without_declaration, error_code>>

Next ==
    \/ MainNoArguments
    \/ MainExtension
    \/ MainMissingFile
    \/ MainCompare
    \/ ParseDefinitions
    \/ ParseDeclarations
    \/ CollectRaises
    \/ CompareReturns
    \/ MainExit

Spec == Init /\ [][Next]_vars

TypeOK == pc \in {"main", "parse_c", "parse_h", "visit", "returned", "exited"}

\* ------------------------------------------------------ words of the claims
Module == Last(sys_argv)

CFile == Module \o DotC
HFile == Module \o DotH

\* a ends with the characters of suffix
EndsWith(a, suffix) ==
    /\ Len(a) >= Len(suffix)
    /\ \A i \in 1..Len(suffix) : a[Len(a) - Len(suffix) + i] = suffix[i]

BadShape == Len(sys_argv) = 1 \/ EndsWith(Module, DotC) \/ EndsWith(Module, DotH)

Indented(names) == [i \in 1..Len(names) |-> <<"  ">> \o names[i]]

\* the members of symbols that do not occur in others, in order, with duplicates
Missing(symbols, others) ==
    LET Absent(s) == \A j \in 1..Len(others) : others[j] # s
    IN  SelectSeq(symbols, Absent)

\* the first position of x in s, 0 when it does not occur
IndexOf(s, x) ==
    IF \E i \in 1..Len(s) : s[i] = x
    THEN CHOOSE i \in 1..Len(s) : s[i] = x /\ \A j \in 1..(i - 1) : s[j] # x
    ELSE 0

RECURSIVE AllNodes(_)
RECURSIVE AllNodesOf(_, _)
\* every node of the tree, parents before children, in traversal order
AllNodes(node) == <<node>> \o AllNodesOf(Children(node), 1)

AllNodesOf(nodes, i) ==
    IF i > Len(nodes) THEN <<>> ELSE AllNodes(nodes[i]) \o AllNodesOf(nodes, i + 1)

RECURSIVE OuterNodes(_)
RECURSIVE OuterNodesOf(_, _)
\* the nodes of the tree that are not below a function declarator
OuterNodes(node) ==
    <<node>> \o (IF node.kind = "FuncDecl" THEN <<>> ELSE OuterNodesOf(Children(node), 1))

OuterNodesOf(nodes, i) ==
    IF i > Len(nodes) THEN <<>> ELSE OuterNodes(nodes[i]) \o OuterNodesOf(nodes, i + 1)

RECURSIVE Innermost(_)
\* the node at the end of the chain of pointer declarators below node
Innermost(node) == IF node.type.kind = "PtrDecl" THEN Innermost(node.type) ELSE node.type

RECURSIVE PtrDepth(_)
PtrDepth(node) == IF node.type.kind = "PtrDecl" THEN 1 + PtrDepth(node.type) ELSE 0

IsOwnFuncDecl(node, file) == node.kind = "FuncDecl" /\ node.coord_file = file

HasLeaf(node) == Innermost(node).kind = "TypeDecl"

LeafName(node) == IF HasLeaf(node) THEN Innermost(node).declname ELSE <<"?">>

\* the leaf names of the function declarators of file among nodes, in order
DeclaredNames(nodes, file) ==
    LET Own(n) == IsOwnFuncDecl(n, file)
        own == SelectSeq(nodes, Own)
    IN  [i \in 1..Len(own) |-> LeafName(own[i])]

\* the definitions of name in the .c tree with the .c file's coordinate
OwnDefinitions(name) ==
    {i \in 1..Len(definitions_ast.ext) :
        /\ definitions_ast.ext[i].kind = "FuncDef"
        /\ definitions_ast.ext[i].coord_file = CFile
        /\ definitions_ast.ext[i].decl.name = name}

IsStatic(i) == \E k \in 1..Len(definitions_ast.ext[i].decl.storage) :
                  definitions_ast.ext[i].decl.storage[k] = "static"

OnlyStatic(name) ==
    /\ OwnDefinitions(name) # {}
    /\ \A i \in OwnDefinitions(name) : IsStatic(i)

Collected == c_visitor # None /\ h_visitor # None /\ ~h_visitor.raised

\* ------------------------------------------------------------------ claims
\* C1: compare_header_and_body returns 0 exactly when every name of the
\* definition list occurs in the declaration list and every name of the
\* declaration list occurs in the definition list; it then prints nothing,
\* and in every other case it returns -1.
C1_ReturnsZeroIffSameNames ==
    pc = "returned" =>
        LET defs == c_visitor.symbols
            decls == h_visitor.symbols
            same == /\ \A i \in 1..Len(defs) : \E j \in 1..Len(decls) : decls[j] = defs[i]
                    /\ \A j \in 1..Len(decls) : \E i \in 1..Len(defs) : defs[i] = decls[j]
        IN  /\ error_code = <<0>> <=> same
            /\ same => stdout = <<>>
            /\ ~same => error_code = <<-1>>

C1_Witness ==
    /\ pc = "returned"
    /\ error_code = <<0>>
    /\ Len(c_visitor.symbols) = 2
    /\ Len(h_visitor.symbols) = 1

\* C2: the definitions report lists exactly the names of the .c list that do
\* not occur in the .h list, the declarations report exactly the names of the
\* .h list that do not occur in the .c list, each in traversal order with its
\* duplicates; a report and its header are printed iff its list is not empty,
\* and the definitions report comes first.
C2_ReportsAreTheDifferences ==
    pc = "returned" =>
        LET D == Indented(Missing(c_visitor.symbols, h_visitor.symbols))
            H == Indented(Missing(h_visitor.symbols, c_visitor.symbols))
        IN  stdout =
              (IF D # <<>> THEN <<definitions_header(Module)>> \o D \o << <<>> >> ELSE <<>>)
              \o (IF H # <<>> THEN <<declarations_header(Module)>> \o H ELSE <<>>)

C2_Witness ==
    /\ pc = "returned"
    /\ c_visitor.symbols = << <<"f">>, <<"f">> >>
    /\ h_visitor.symbols = << <<"g">>, <<"g">> >>
    /\ Len(stdout) = 7

\* C3: a definition whose storage class list contains 'static' is never added
\* to the definition list: the list has one entry per non-static definition of
\* the .c file, and a name whose definitions in the .c file are all static is
\* neither in the list nor in the definitions report.
C3_StaticNeverCollected ==
    c_visitor # None =>
        /\ Len(c_visitor.symbols) =
              Cardinality({i \in 1..Len(definitions_ast.ext) :
                              /\ definitions_ast.ext[i].kind = "FuncDef"
                              /\ definitions_ast.ext[i].coord_file = CFile
                              /\ ~IsStatic(i)})
        /\ \A n \in Names :
              OnlyStatic(n) =>
                 /\ \A i \in 1..Len(c_visitor.symbols) : c_visitor.symbols[i] # n
                 /\ \A i \in 1..Len(without_definition) :
                       without_definition[i] # <<"  ">> \o n
                 /\ \A i \in 1..Len(stdout) :
                       stdout[i] = <<"  ">> \o n =>
                          /\ IndexOf(stdout, declarations_header(Module)) > 0
                          /\ IndexOf(stdout, declarations_header(Module)) < i

C3_Witness ==
    /\ pc = "returned"
    /\ OnlyStatic(<<"f">>)
    /\ \A j \in 1..Len(h_visitor.symbols) : h_visitor.symbols[j] # <<"f">>
    /\ without_definition = << <<"  ", "g">> >>

\* C4: with no argument, or with a last argument ending in '.c' or '.h', the
\* tool prints the usage text and exits with -1, before any check that a file
\* exists and without any call of the parser.
C4_UsageBeforeAnythingElse ==
    BadShape =>
        /\ exists_calls = <<>>
        /\ parse_calls = <<>>
        /\ pc \in {"main", "exited"}
        /\ pc = "exited" => stdout = <<usage>> /\ exit_code = <<-1>>

C4_Witness ==
    /\ pc = "exited"
    /\ Len(sys_argv) = 3
    /\ EndsWith(Module, DotH)
    /\ files = {HFile}
    /\ stdout = <<usage>>

\* C5: with a valid invocation shape and <module>.c or <module>.h (or both)
\* missing, the tool prints the missing-file error and exits with -1, and the
\* parser is never called.
C5_MissingFileIsAnError ==
    (~BadShape /\ (CFile \notin files \/ HFile \notin files)) =>
        /\ parse_calls = <<>>
        /\ pc \in {"main", "exited"}
        /\ pc = "exited" =>
              /\ stdout = <<missing_file_message(Module)>>
              /\ exit_code = <<-1>>

C5_Witness ==
    /\ pc = "exited"
    /\ ~BadShape
    /\ files = {CFile}
    /\ exists_calls = <<CFile, HFile>>
    /\ exit_code = <<-1>>

\* C6: a parse error for <module>.c or <module>.h ends the run with exit code
\* -1 after an error message that names the file whose parse failed; no symbol
\* list is collected and no mismatch report is printed, and <module>.h is
\* parsed only after <module>.c was parsed successfully.
C6_ParseErrorIsFatal ==
    /\ parse_errors # <<>> =>
          /\ pc = "exited"
          /\ exit_code = <<-1>>
          /\ Len(parse_errors) = 1
          /\ parse_errors[1] = parse_calls[Len(parse_calls)].filename
          /\ Len(stdout) = 1
          /\ SubSeq(stdout[1], 1, 1 + Len(parse_errors[1]))
                = <<"ERROR processing ">> \o parse_errors[1]
          /\ Last(stdout[1]) = " - C99 parse error"
          /\ c_visitor = None
          /\ h_visitor = None
          /\ without_definition = <<>>
          /\ without_declaration = <<>>
    /\ \A i \in 1..Len(parse_calls) :
          parse_calls[i].filename = HFile =>
             /\ i = 2
             /\ parse_calls[1].filename = CFile
             /\ definitions_ast # None
             /\ parse_errors = <<>> \/ parse_errors = <<HFile>>

C6_Witness ==
    /\ pc = "exited"
    /\ parse_errors = <<HFile>>
    /\ Len(parse_calls) = 2
    /\ Len(definitions_ast.ext) = 2

\* C7 as stated: the tool exits with 0 only when the two symbol lists are
\* equal as lists.
C7_ExitZeroOnlyForEqualLists ==
    (pc = "exited" /\ exit_code = <<0>>) => c_visitor.symbols = h_visitor.symbols

\* C7 as amended: the tool exits with 0 only when the two symbol lists were
\* collected and hold the same names, whatever their order and multiplicities.
C7_ExitZeroOnlyForSameNames ==
    (pc = "exited" /\ exit_code = <<0>>) =>
        /\ Collected
        /\ \A i \in 1..Len(c_visitor.symbols) :
              \E j \in 1..Len(h_visitor.symbols) : h_visitor.symbols[j] = c_visitor.symbols[i]
        /\ \A j \in 1..Len(h_visitor.symbols) :
              \E i \in 1..Len(c_visitor.symbols) : c_visitor.symbols[i] = h_visitor.symbols[j]

C7_Witness ==
    /\ pc = "exited"
    /\ exit_code = <<0>>
    /\ c_visitor.symbols = << <<"f">>, <<"g">> >>
    /\ h_visitor.symbols = << <<"g">>, <<"f">> >>

\* C8: when a directory 'pycparser' exists in the current directory, or else
\* beside the script, '-I<that directory>/utils/fake_libc_include' is among
\* the preprocessor arguments of both parses; when it exists in neither place
\* no such argument is there.
C8_FakeLibcIsFound ==
    \A i \in 1..Len(parse_calls) :
        LET fake == <<"/", "utils", "/", "fake_libc_include">>
            given == Range(parse_calls[i].cpp_args)
        IN  /\ CwdPycparser \in dirs => (<<"-I", "./pycparser">> \o fake) \in given
            /\ (CwdPycparser \notin dirs /\ ScriptDirPycparser \in dirs) =>
                  (<<"-I">> \o ScriptDirPycparser \o fake) \in given
            /\ (CwdPycparser \notin dirs /\ ScriptDirPycparser \notin dirs) =>
                  \A a \in given : ~EndsWith(a, fake)

====
